---- MODULE Spec2Model ----
(***************************************************************************)
(* PixelEye: the window-state cache and the Normal <-> Compare mode        *)
(* controller.                                                             *)
(*                                                                         *)
(* Modelled sources                                                        *)
(*   src/src/hooks/useTransparentMode.ts  lines 23-171: the useWindowCache *)
(*        hook (saveMainWindowState .. exitCompareMode, startup effect)    *)
(*   src/src/App.tsx                      handleEnterCompareMode,          *)
(*        handleExitCompareMode, saveSelectedImage, the render guards      *)
(*   src/unnamed/part_001                 StorageService.get / set         *)
(*   src/src/hooks/useWindowManager.ts    toggleAlwaysOnTop                *)
(*   src/src/hooks/useWindowCache.ts      the start-up effect of this copy *)
(*        of the hook (SpecWindowCache)                                    *)
(*   src/unnamed/part_003, part_006       the opacity control (SpecOpacity)*)
(*   src/unnamed/part_000                 images, recent images, object    *)
(*        URLs (SpecImages)                                                *)
(*                                                                         *)
(* Execution model: one JavaScript thread.  A handler runs from one await  *)
(* to the next without interruption; every action below is one such run:  *)
(* the awaited call takes effect (or rejects) and the handler continues to *)
(* its next await.  Several handlers may be suspended at once; they are    *)
(* the records of hs.  The application start-up read is split in two       *)
(* steps (the store serves the read, the promise continuation runs).       *)
(*                                                                         *)
(* Environment assumptions: the user moves or resizes the native window    *)
(* only while no mode transition is suspended.  Three kinds of incident    *)
(* are explored, at most MaxIncidents of them in a run: an awaited native  *)
(* or store call rejects; a handler is started while another one is still  *)
(* suspended; the application is closed and started again.                 *)
(***************************************************************************)
EXTENDS Integers, Sequences, FiniteSets, TLC

(* ------------------------------ bounds -------------------------------- *)
NumGeoms == 2
MaxIncidents == 1
\* the image files the user has, and the imports the user makes
NumFiles == 2
MaxImports == 2
\* the times the user clears the selection
MaxRemovals == 1

(* ------------------------- program constants -------------------------- *)
DefaultCompareWidth == 750
\* [newRecent, ...filtered].slice(0, 10)
MaxRecent == 10

(* ------------------------------ values -------------------------------- *)
\* JavaScript null
Null == [isNull |-> TRUE]

\* WindowState {size:{width,height}, position:{x,y}}, flattened
WindowState(w, h, px, py) == [width |-> w, height |-> h, x |-> px, y |-> py]

\* the geometries a user gives the window: (1200,800)@(100,50), (900,700)@(200,100), ...
UserGeom(i) == WindowState(1500 - 300 * i, 900 - 100 * i, 100 * i, 50 * i)
UserGeoms == {UserGeom(i) : i \in 1..NumGeoms}

\* no image / an image
NoImage == 0
Images == {1}

\* store keys (STORAGE_KEYS) and the absent entry of a store
MAIN_WINDOW_STATE == "pixels_main_window_state"
COMPARE_WINDOW_STATE == "pixels_compare_window_state"
StoreKeys == {MAIN_WINDOW_STATE, COMPARE_WINDOW_STATE}
Absent == <<>>
EmptyStore == [k \in StoreKeys |-> Absent]

VARIABLES
  isTauriEnvironment,  \* environmentUtils: window.__TAURI__ !== undefined
  live,                \* geometry of the native window
  nativeOnTop,         \* always-on-top flag of the native window
  selectedImage,       \* App state
  isCompareMode,       \* App state
  mainWindowState,     \* useWindowCache state (Null or a WindowState)
  alwaysOnTop,         \* useWindowManager state of the mounted CompareWindow
  toggle,              \* the suspended toggleAlwaysOnTop call, if any
  mem,                 \* the store as the running process sees it (key -> JSON)
  disk,                \* the store file (what a restart reads)
  startup,             \* the start-up loadMainWindowState
  hs,                  \* suspended enter/exit handlers, by slot
  incidents,           \* incidents so far (rejections, overlapping starts, restarts),
                       \*   and whether a store call was among the rejections
  written,             \* history: per key, the value of the latest store.set and
                       \*   whether the saveState that wrote it has completed
  session,             \* history: the enterCompare that opened the compare session
  last,                \* history: the step just taken
  opacity,             \* App state, in hundredths (0.7 is 70)
  selectedUrl,         \* the object URL of selectedImage (selectedImage.url)
  recentImages,        \* App state: the recent images, newest first
  objectUrls,          \* the object URLs made in this run, and those revoked
  createdUrlsRef,      \* App ref: the URLs tracked for cleanup
  timers,              \* the setTimeout(.., 0) callbacks not yet run, in order
  saveRecentTimeoutRef, \* App ref: the armed 300 ms timer and the list it will save
  isStoringRef,        \* App ref
  isStoringRecentRef,  \* App ref
  pending,             \* awaited store calls on the image keys, in order of issue
  imageStore,          \* the store: last image and recent images
  loadData,            \* position of the start-up loadData
  user                 \* history: the imports and removals made, the image added last,
                       \*   a URL left unreleased by a shutdown, an import made
                       \*   before the start-up load had finished

vars == <<isTauriEnvironment, live, nativeOnTop, selectedImage, isCompareMode,
          mainWindowState, alwaysOnTop, toggle, mem, disk, startup, hs,
          incidents, written, session, last, opacity, selectedUrl,
          recentImages, objectUrls, createdUrlsRef, timers, saveRecentTimeoutRef,
          isStoringRef, isStoringRecentRef, pending, imageStore, loadData, user>>

(* --------------------------- StorageService --------------------------- *)
\* what the store keeps for a WindowState: its JSON form (IPC / file / JSON.stringify)
Serialize(ws) == <<ws.width, ws.height, ws.x, ws.y>>

Parse_SwappedPosition(j) == WindowState(j[1], j[2], j[4], j[3])

\* the value a stored JSON form is read back as
Parse(j) == WindowState(j[1], j[2], j[3], j[4])

StorageGet_DefaultWhenAbsent(store, key, rejected) ==
  IF rejected THEN Null
  ELSE IF store[key] = Absent THEN WindowState(DefaultCompareWidth, 800, 100, 50)
  ELSE Parse(store[key])

StorageGet_StaleWhenRejected(store, key, rejected) ==
  IF store[key] = Absent THEN Null ELSE Parse(store[key])

\* StorageService.get: the stored value, null when absent or when the read rejected
StorageGet(store, key, rejected) ==
  IF rejected \/ store[key] = Absent THEN Null ELSE Parse(store[key])

StorageSet_Dropped(store, key, value) == store

StorageSet_OneSlot(store, key, value) == [k \in StoreKeys |-> Serialize(value)]

\* StorageService.set, first await: store.set(key, value)
StorageSet(store, key, value) == [store EXCEPT ![key] = Serialize(value)]

loadCompareWindowState_NeverCached(store, rejected) == Null

\* loadCompareWindowState: state || null
loadCompareWindowState(store, rejected) == StorageGet(store, COMPARE_WINDOW_STATE, rejected)

(* --------------------------- handler records -------------------------- *)
NoGeom == WindowState(0, 0, 0, 0)

NoHandler ==
  [kind |-> "none", pc |-> "idle", cur |-> NoGeom, cached |-> Null, msnap |-> Null,
   liveAtCall |-> NoGeom, alone |-> TRUE, nativeFault |-> FALSE, storeFault |-> FALSE]

NewHandler_SetsFirst(k, firstPc, snap, isAlone) ==
  [kind |-> k, pc |-> "setSize", cur |-> NoGeom, cached |-> Null, msnap |-> snap,
   liveAtCall |-> live, alone |-> isAlone, nativeFault |-> FALSE, storeFault |-> FALSE]

NewHandler(k, firstPc, snap, isAlone) ==
  [kind |-> k, pc |-> firstPc, cur |-> NoGeom, cached |-> Null, msnap |-> snap,
   liveAtCall |-> live, alone |-> isAlone, nativeFault |-> FALSE, storeFault |-> FALSE]

Slots == 1..(MaxIncidents + 1)
Busy == {i \in Slots : hs[i].kind # "none"}
Free == Slots \ Busy
\* a new handler takes the lowest free slot
FirstFree == CHOOSE i \in Free : \A j \in Free : i <= j

Started_CancelsOthers(i, rec) == [j \in Slots |-> IF j = i THEN rec ELSE NoHandler]

\* hs after handler rec was started in slot i: the handlers now overlap
Started(i, rec) ==
  [j \in Slots |-> IF j = i THEN rec
                   ELSE IF hs[j].kind # "none" THEN [hs[j] EXCEPT !.alone = FALSE]
                   ELSE hs[j]]

\* may this await reject?
Outcomes == IF incidents.count < MaxIncidents THEN {TRUE, FALSE} ELSE {TRUE}
\* an awaited native call resolved (ok) or rejected
CountFault(ok) ==
  incidents' = IF ok THEN incidents ELSE [incidents EXCEPT !.count = @ + 1]
\* an awaited store call resolved (ok) or rejected
CountStoreFault(ok) ==
  incidents' = IF ok THEN incidents
               ELSE [count |-> incidents.count + 1, storeRejected |-> TRUE]

\* may a handler be started now, and the incident it is when another is suspended
CanStart == Busy = {} \/ (incidents.count < MaxIncidents /\ Free # {})
CountStart ==
  incidents' = IF Busy = {} THEN incidents ELSE [incidents EXCEPT !.count = @ + 1]

(* ------------------------------ rendering ----------------------------- *)
\* App render: <CompareWindow> is mounted iff isCompareMode && selectedImage
CompareWindowMounted(compareMode, image) == compareMode /\ image # NoImage

\* App render: the main page is mounted iff !isCompareMode
MainPageMounted(compareMode) == ~compareMode

NoToggle == [pc |-> "idle", newValue |-> FALSE, stale |-> FALSE]

\* the effect of a render on the state owned by CompareWindow: useWindowManager's
\* alwaysOnTop starts at false on every mount, and a toggle suspended in an
\* unmounted instance no longer reaches a mounted component
Render(compareMode, image) ==
  IF CompareWindowMounted(isCompareMode, selectedImage)
     /\ CompareWindowMounted(compareMode, image)
  THEN UNCHANGED <<alwaysOnTop, toggle>>
  ELSE /\ alwaysOnTop' = FALSE
       /\ toggle' = IF toggle.pc = "idle" THEN toggle ELSE [toggle EXCEPT !.stale = TRUE]

\* history of a key after store.set(key, value) took effect / after the store.save()
\* of the saveState that wrote value succeeded
Wrote(key, value) == [written EXCEPT ![key] = [val |-> value, complete |-> FALSE]]
Saved(key, value) ==
  IF written[key] # Null /\ written[key].val = value
  THEN [written EXCEPT ![key].complete = TRUE]
  ELSE written

\* history of the mode: open/liveBefore/clean describe the enterCompare that last set
\* the mode to Compare (the live geometry when it was called, whether it ran alone
\* from Normal); exitLive is the live geometry when the exitCompare that last set the
\* mode to Normal was called; keyAtEntry is the write history of the active mode's
\* key when that mode was entered
NoSession == [open |-> FALSE, liveBefore |-> NoGeom, clean |-> FALSE,
              exitLive |-> Null, keyAtEntry |-> Null]
EnteredCompare(before, isClean) ==
  [session EXCEPT !.open = TRUE, !.liveBefore = before, !.clean = isClean,
                  !.keyAtEntry = written[COMPARE_WINDOW_STATE]]
EnteredNormal(before) ==
  [session EXCEPT !.open = FALSE, !.exitLive = before,
                  !.keyAtEntry = written[MAIN_WINDOW_STATE]]
Step(name) == [op |-> name, ok |-> TRUE, h |-> NoHandler]
Done(name, success, rec) == [op |-> name, ok |-> success, h |-> rec]

(* ------------------ values of the image management -------------------- *)
\* useState(0.7), in hundredths
InitialOpacity == 70
\* the step of ArrowUp / ArrowDown (0.1) and of the range input (0.05), in hundredths
KeyStep == 10
SliderStep == 5
FullOpacity == 100

NoUrl == 0
NoUrls == [made |-> 0, revoked |-> {}]
NoTimeout == [armed |-> FALSE, images |-> <<>>]
\* the image keys of the store; the entry of LAST_IMAGE is an image id or NoImage
EmptyImageStore == [lastImage |-> NoImage, recent |-> <<>>]
NoUser == [imports |-> 0, removals |-> 0, lastAdded |-> NoImage, leaked |-> FALSE,
           early |-> FALSE]
Files == 1..NumFiles

\* an ImageData / RecentImage object: its id (generateImageId: name and size) and url
ImageData(f, u) == [id |-> f, url |-> u]

(* -------------------------------- Init -------------------------------- *)
\* the geometry the native window opens with
StartGeom == UserGeom(1)

NoStartup == [pc |-> "pending", value |-> Null, afterRestart |-> FALSE]

Init ==
  /\ isTauriEnvironment \in BOOLEAN
  /\ live = StartGeom
  /\ nativeOnTop = FALSE
  /\ selectedImage = NoImage
  /\ isCompareMode = FALSE
  /\ mainWindowState = Null
  /\ alwaysOnTop = FALSE
  /\ toggle = NoToggle
  /\ mem = EmptyStore
  /\ disk = EmptyStore
  /\ startup = NoStartup
  /\ hs = [i \in Slots |-> NoHandler]
  /\ incidents = [count |-> 0, storeRejected |-> FALSE]
  /\ written = [k \in StoreKeys |-> Null]
  /\ session = NoSession
  /\ last = Step("init")
  /\ opacity = InitialOpacity
  /\ selectedUrl = NoUrl
  /\ recentImages = <<>>
  /\ objectUrls = NoUrls
  /\ createdUrlsRef = {}
  /\ timers = <<>>
  /\ saveRecentTimeoutRef = NoTimeout
  /\ isStoringRef = FALSE
  /\ isStoringRecentRef = FALSE
  /\ pending = <<>>
  /\ imageStore = EmptyImageStore
  /\ loadData = "lastImage"
  /\ user = NoUser

env == <<isTauriEnvironment>>
win == <<live, nativeOnTop>>
top == <<alwaysOnTop, toggle>>
sto == <<mem, disk, written>>
\* the opacity control
opa == <<opacity>>
\* the image management: object URLs, recent images, last image
img == <<selectedUrl, recentImages, objectUrls, createdUrlsRef, timers,
         saveRecentTimeoutRef, isStoringRef, isStoringRecentRef, pending, imageStore,
         loadData, user>>

(* -------------------- useWindowCache: start-up effect ------------------ *)
\* loadMainWindowState, the read: storageService.get(MAIN_WINDOW_STATE) is served
StartupRead ==
  /\ startup.pc = "pending"
  /\ \E ok \in Outcomes :
       /\ startup' = [startup EXCEPT !.pc = "read",
                                      !.value = StorageGet(mem, MAIN_WINDOW_STATE, ~ok)]
       /\ CountStoreFault(ok)
       /\ last' = Done("startupRead", ok, NoHandler)
  /\ UNCHANGED <<opa, img, env, win, top, sto, selectedImage, isCompareMode, mainWindowState,
                 hs, session>>

\* loadMainWindowState, the continuation: if (state) setMainWindowState(state)
StartupDeliver ==
  /\ startup.pc = "read"
  /\ startup' = [startup EXCEPT !.pc = "done"]
  /\ mainWindowState' = IF startup.value # Null THEN startup.value ELSE mainWindowState
  /\ last' = Step("startupDeliver")
  /\ UNCHANGED <<opa, img, env, win, top, sto, selectedImage, isCompareMode, hs, incidents,
                 session>>

\* the start-up effect of src/src/hooks/useWindowCache.ts: it declares initializeState
\* and returns; the only call of initializeState is inside its own body, so
\* loadMainWindowState is not invoked
StartupEffect ==
  /\ startup.pc = "pending"
  /\ startup' = [startup EXCEPT !.pc = "notInvoked"]
  /\ last' = Step("startupEffect")
  /\ UNCHANGED <<opa, img, env, win, top, sto, selectedImage, isCompareMode, mainWindowState,
                 hs, incidents, session>>

(* ------------------------- App: image selection ----------------------- *)
\* saveSelectedImage(image): setSelectedImage(image)
SaveSelectedImage(image) ==
  /\ image # selectedImage
  \* the remove button is part of the image preview of the main page
  /\ image = NoImage => MainPageMounted(isCompareMode)
  /\ selectedImage' = image
  /\ Render(isCompareMode, image)
  /\ last' = Step("saveSelectedImage")
  /\ UNCHANGED <<opa, img, env, win, sto, isCompareMode, mainWindowState, startup, hs, incidents,
                 session>>

(* --------------------- the user and the native window ------------------ *)
\* the user drags or resizes the window (desktop only; no transition suspended)
UserMoveWindow(g) ==
  /\ isTauriEnvironment
  /\ Busy = {}
  /\ g # live
  /\ live' = g
  /\ last' = Step("userMoveWindow")
  /\ UNCHANGED <<opa, img, isTauriEnvironment, nativeOnTop, top, sto, selectedImage,
                 isCompareMode, mainWindowState, startup, hs, incidents, session>>

(* ------------------ handleEnterCompareMode / enterCompareMode ---------- *)
EnterGuard_Always(image) == TRUE

\* handleEnterCompareMode: if (selectedImage)
EnterGuard(image) == image # NoImage

ModeAfterEnter_IgnoresSuccess(success, compareMode) == TRUE

\* handleEnterCompareMode: if (success) setIsCompareMode(true)
ModeAfterEnter(success, compareMode) == IF success THEN TRUE ELSE compareMode

EnterTargetSize_KeepsWidth(cached, cur) ==
  IF cached # Null
  THEN [width |-> cached.width, height |-> cached.height]
  ELSE [width |-> cur.width, height |-> cur.height]

\* enterCompareMode: the size given to set_window_size
EnterTargetSize(cached, cur) ==
  IF cached # Null
  THEN [width |-> cached.width, height |-> cached.height]
  ELSE [width |-> DefaultCompareWidth, height |-> cur.height]

ReturnsAtOnce_Never(tauri) == FALSE

\* enterCompareMode: if (!isTauriEnvironment) return true;
\* exitCompareMode: if (!isTauriEnvironment) return;
ReturnsAtOnce(tauri) == ~tauri

\* the enterCompareMode in slot i returns success to handleEnterCompareMode
EnterReturn(i, rec, success) ==
  /\ hs' = [hs EXCEPT ![i] = NoHandler]
  /\ isCompareMode' = ModeAfterEnter(success, isCompareMode)
  /\ Render(isCompareMode', selectedImage)
  /\ session' = IF success
                THEN EnteredCompare(rec.liveAtCall, rec.alone /\ ~isCompareMode)
                ELSE session
  /\ last' = Done("enterDone", success, rec)

\* the click on "enter compare mode" (the button of the main page)
HandleEnterCompareMode ==
  /\ MainPageMounted(isCompareMode)
  /\ IF ~EnterGuard(selectedImage)
     THEN /\ last' = Step("enterNoImage")
          /\ UNCHANGED <<isCompareMode, hs, top, session, incidents>>
     ELSE IF ReturnsAtOnce(isTauriEnvironment)
     THEN \* enterCompareMode: if (!isTauriEnvironment) return true
          /\ isCompareMode' = ModeAfterEnter(TRUE, isCompareMode)
          /\ Render(isCompareMode', selectedImage)
          /\ session' = EnteredCompare(live, Busy = {})
          /\ last' = Done("enterDone", TRUE, NewHandler("enter", "return", Null, Busy = {}))
          /\ UNCHANGED <<hs, incidents>>
     ELSE /\ CanStart
          /\ CountStart
          /\ hs' = Started(FirstFree, NewHandler("enter", "getSize", Null, Busy = {}))
          /\ last' = Step("enterCall")
          /\ UNCHANGED <<isCompareMode, top, session>>
  /\ UNCHANGED <<opa, img, env, win, sto, selectedImage, mainWindowState, startup>>

\* await invoke('get_window_size')
EnterGetSize(i) ==
  /\ hs[i].kind = "enter" /\ hs[i].pc = "getSize"
  /\ \E ok \in Outcomes :
       /\ CountFault(ok)
       /\ IF ok
          THEN /\ hs' = [hs EXCEPT ![i].pc = "getPos",
                                   ![i].cur.width = live.width,
                                   ![i].cur.height = live.height]
               /\ last' = Step("enterGetSize")
               /\ UNCHANGED <<isCompareMode, top, session>>
          ELSE EnterReturn(i, [hs[i] EXCEPT !.nativeFault = TRUE], FALSE)
  /\ UNCHANGED <<opa, img, env, win, sto, selectedImage, mainWindowState, startup>>

setMainWindowState_Dropped(prev, state) == prev

\* saveMainWindowState: setMainWindowState(state)
setMainWindowState(prev, state) == state

\* await invoke('get_window_position'); then saveMainWindowState runs up to its
\* await: setMainWindowState(state)
EnterGetPos(i) ==
  /\ hs[i].kind = "enter" /\ hs[i].pc = "getPos"
  /\ \E ok \in Outcomes :
       /\ CountFault(ok)
       /\ IF ok
          THEN /\ hs' = [hs EXCEPT ![i].pc = "storeSet",
                                   ![i].cur.x = live.x,
                                   ![i].cur.y = live.y]
               /\ mainWindowState' = setMainWindowState(mainWindowState, hs'[i].cur)
               /\ last' = Step("enterGetPos")
               /\ UNCHANGED <<isCompareMode, top, session>>
          ELSE /\ EnterReturn(i, [hs[i] EXCEPT !.nativeFault = TRUE], FALSE)
               /\ UNCHANGED mainWindowState
  /\ UNCHANGED <<opa, img, env, win, sto, selectedImage, startup>>

EnterStoreSet_Retries(i) ==
  /\ hs[i].kind = "enter" /\ hs[i].pc = "storeSet"
  /\ \E ok \in Outcomes :
       /\ CountStoreFault(ok)
       /\ IF ok
          THEN /\ mem' = StorageSet(mem, MAIN_WINDOW_STATE, hs[i].cur)
               /\ written' = Wrote(MAIN_WINDOW_STATE, hs[i].cur)
               /\ hs' = [hs EXCEPT ![i].pc = "storeSave"]
          ELSE /\ UNCHANGED <<mem, written>>
               /\ hs' = [hs EXCEPT ![i].storeFault = TRUE]
  /\ last' = Step("enterStoreSet")
  /\ UNCHANGED <<opa, img, env, win, top, disk, selectedImage, isCompareMode, mainWindowState,
                 startup, session>>

\* storageService.set(MAIN_WINDOW_STATE, state): await this.store.set(key, value);
\* a rejection is caught in StorageService.set, which then returns
EnterStoreSet(i) ==
  /\ hs[i].kind = "enter" /\ hs[i].pc = "storeSet"
  /\ \E ok \in Outcomes :
       /\ CountStoreFault(ok)
       /\ IF ok
          THEN /\ mem' = StorageSet(mem, MAIN_WINDOW_STATE, hs[i].cur)
               /\ written' = Wrote(MAIN_WINDOW_STATE, hs[i].cur)
               /\ hs' = [hs EXCEPT ![i].pc = "storeSave"]
          ELSE /\ UNCHANGED <<mem, written>>
               /\ hs' = [hs EXCEPT ![i].pc = "getCompare", ![i].storeFault = TRUE]
  /\ last' = Step("enterStoreSet")
  /\ UNCHANGED <<opa, img, env, win, top, disk, selectedImage, isCompareMode, mainWindowState,
                 startup, session>>

\* storageService.set: await this.store.save()
EnterStoreSave(i) ==
  /\ hs[i].kind = "enter" /\ hs[i].pc = "storeSave"
  /\ \E ok \in Outcomes :
       /\ CountStoreFault(ok)
       /\ disk' = IF ok THEN mem ELSE disk
       /\ written' = IF ok THEN Saved(MAIN_WINDOW_STATE, hs[i].cur) ELSE written
       /\ hs' = [hs EXCEPT ![i].pc = "getCompare",
                           ![i].storeFault = hs[i].storeFault \/ ~ok]
  /\ last' = Step("enterStoreSave")
  /\ UNCHANGED <<opa, img, env, win, top, mem, selectedImage, isCompareMode, mainWindowState,
                 startup, session>>

\* const cachedCompareState = await loadCompareWindowState()
EnterGetCompare(i) ==
  /\ hs[i].kind = "enter" /\ hs[i].pc = "getCompare"
  /\ \E ok \in Outcomes :
       /\ CountStoreFault(ok)
       /\ hs' = [hs EXCEPT ![i].pc = "setSize",
                           ![i].cached = loadCompareWindowState(mem, ~ok),
                           ![i].storeFault = hs[i].storeFault \/ ~ok]
       /\ last' = Done("loadCompare", ok, hs'[i])
  /\ UNCHANGED <<opa, img, env, win, top, sto, selectedImage, isCompareMode, mainWindowState,
                 startup, session>>

\* await invoke('set_window_size', ..): the cached compare size, or 750 x current height
EnterSetSize(i) ==
  /\ hs[i].kind = "enter" /\ hs[i].pc = "setSize"
  /\ \E ok \in Outcomes :
       /\ CountFault(ok)
       /\ IF ok
          THEN /\ live' = [live EXCEPT
                             !.width = EnterTargetSize(hs[i].cached, hs[i].cur).width,
                             !.height = EnterTargetSize(hs[i].cached, hs[i].cur).height]
               /\ IF hs[i].cached # Null
                  THEN /\ hs' = [hs EXCEPT ![i].pc = "setPos"]
                       /\ last' = Step("enterSetSize")
                       /\ UNCHANGED <<isCompareMode, top, session>>
                  ELSE EnterReturn(i, hs[i], TRUE)
          ELSE /\ live' = live
               /\ EnterReturn(i, [hs[i] EXCEPT !.nativeFault = TRUE], FALSE)
  /\ UNCHANGED <<opa, img, env, nativeOnTop, sto, selectedImage, mainWindowState, startup>>

\* await invoke('set_window_position', ..) with the cached compare position
EnterSetPos(i) ==
  /\ hs[i].kind = "enter" /\ hs[i].pc = "setPos"
  /\ \E ok \in Outcomes :
       /\ CountFault(ok)
       /\ live' = IF ok THEN [live EXCEPT !.x = hs[i].cached.x, !.y = hs[i].cached.y]
                  ELSE live
       /\ EnterReturn(i, [hs[i] EXCEPT !.nativeFault = ~ok], ok)
  /\ UNCHANGED <<opa, img, env, nativeOnTop, sto, selectedImage, mainWindowState, startup>>

(* ------------------- handleExitCompareMode / exitCompareMode ----------- *)
\* handleExitCompareMode: await exitCompareMode(); setIsCompareMode(false)
ModeAfterExit(success, compareMode) == FALSE

\* the exitCompareMode in slot i returns to handleExitCompareMode
ExitReturn(i, rec, success) ==
  /\ hs' = [hs EXCEPT ![i] = NoHandler]
  /\ isCompareMode' = ModeAfterExit(success, isCompareMode)
  /\ Render(isCompareMode', selectedImage)
  /\ session' = EnteredNormal(rec.liveAtCall)
  /\ last' = Done("exitDone", success, rec)

\* Esc or the back button of the mounted CompareWindow (onClose); the callback
\* closes over the mainWindowState of the render it was created in
HandleExitCompareMode ==
  /\ CompareWindowMounted(isCompareMode, selectedImage)
  /\ IF ReturnsAtOnce(isTauriEnvironment)
     THEN \* exitCompareMode: if (!isTauriEnvironment) return
          /\ isCompareMode' = ModeAfterExit(TRUE, isCompareMode)
          /\ Render(isCompareMode', selectedImage)
          /\ session' = EnteredNormal(live)
          /\ last' = Done("exitDone", TRUE,
                          NewHandler("exit", "return", mainWindowState, Busy = {}))
          /\ UNCHANGED <<hs, incidents>>
     ELSE /\ CanStart
          /\ CountStart
          /\ hs' = Started(FirstFree,
                           NewHandler("exit", "getSize", mainWindowState, Busy = {}))
          /\ last' = Step("exitCall")
          /\ UNCHANGED <<isCompareMode, top, session>>
  /\ UNCHANGED <<opa, img, env, win, sto, selectedImage, mainWindowState, startup>>

\* await invoke('get_window_size')
ExitGetSize(i) ==
  /\ hs[i].kind = "exit" /\ hs[i].pc = "getSize"
  /\ \E ok \in Outcomes :
       /\ CountFault(ok)
       /\ IF ok
          THEN /\ hs' = [hs EXCEPT ![i].pc = "getPos",
                                   ![i].cur.width = live.width,
                                   ![i].cur.height = live.height]
               /\ last' = Step("exitGetSize")
               /\ UNCHANGED <<isCompareMode, top, session>>
          ELSE ExitReturn(i, [hs[i] EXCEPT !.nativeFault = TRUE], FALSE)
  /\ UNCHANGED <<opa, img, env, win, sto, selectedImage, mainWindowState, startup>>

\* await invoke('get_window_position')
ExitGetPos(i) ==
  /\ hs[i].kind = "exit" /\ hs[i].pc = "getPos"
  /\ \E ok \in Outcomes :
       /\ CountFault(ok)
       /\ IF ok
          THEN /\ hs' = [hs EXCEPT ![i].pc = "storeSet",
                                   ![i].cur.x = live.x,
                                   ![i].cur.y = live.y]
               /\ last' = Step("exitGetPos")
               /\ UNCHANGED <<isCompareMode, top, session>>
          ELSE ExitReturn(i, [hs[i] EXCEPT !.nativeFault = TRUE], FALSE)
  /\ UNCHANGED <<opa, img, env, win, sto, selectedImage, mainWindowState, startup>>

\* saveCompareWindowState: storageService.set(COMPARE_WINDOW_STATE, state), store.set;
\* when it rejects StorageService.set returns, and so does exitCompareMode if the
\* closure holds no main window state
ExitStoreSet(i) ==
  /\ hs[i].kind = "exit" /\ hs[i].pc = "storeSet"
  /\ \E ok \in Outcomes :
       /\ CountStoreFault(ok)
       /\ IF ok
          THEN /\ mem' = StorageSet(mem, COMPARE_WINDOW_STATE, hs[i].cur)
               /\ written' = Wrote(COMPARE_WINDOW_STATE, hs[i].cur)
               /\ hs' = [hs EXCEPT ![i].pc = "storeSave"]
               /\ last' = Step("exitStoreSet")
               /\ UNCHANGED <<isCompareMode, top, session>>
          ELSE /\ UNCHANGED <<mem, written>>
               /\ IF hs[i].msnap # Null
                  THEN /\ hs' = [hs EXCEPT ![i].pc = "setSize", ![i].storeFault = TRUE]
                       /\ last' = Step("exitStoreSet")
                       /\ UNCHANGED <<isCompareMode, top, session>>
                  ELSE ExitReturn(i, [hs[i] EXCEPT !.storeFault = TRUE], TRUE)
  /\ UNCHANGED <<opa, img, env, win, disk, selectedImage, mainWindowState, startup>>

\* storageService.set: await this.store.save(); then if (mainWindowState) ..
ExitStoreSave(i) ==
  /\ hs[i].kind = "exit" /\ hs[i].pc = "storeSave"
  /\ \E ok \in Outcomes :
       /\ CountStoreFault(ok)
       /\ disk' = IF ok THEN mem ELSE disk
       /\ written' = IF ok THEN Saved(COMPARE_WINDOW_STATE, hs[i].cur) ELSE written
       /\ IF hs[i].msnap # Null
          THEN /\ hs' = [hs EXCEPT ![i].pc = "setSize",
                                   ![i].storeFault = hs[i].storeFault \/ ~ok]
               /\ last' = Step("exitStoreSave")
               /\ UNCHANGED <<isCompareMode, top, session>>
          ELSE ExitReturn(i, [hs[i] EXCEPT !.storeFault = hs[i].storeFault \/ ~ok], TRUE)
  /\ UNCHANGED <<opa, img, env, win, mem, selectedImage, mainWindowState, startup>>

\* await invoke('set_window_size', ..) with the size of the closure's mainWindowState
ExitSetSize(i) ==
  /\ hs[i].kind = "exit" /\ hs[i].pc = "setSize"
  /\ \E ok \in Outcomes :
       /\ CountFault(ok)
       /\ IF ok
          THEN /\ live' = [live EXCEPT !.width = hs[i].msnap.width,
                                       !.height = hs[i].msnap.height]
               /\ hs' = [hs EXCEPT ![i].pc = "setPos"]
               /\ last' = Step("exitSetSize")
               /\ UNCHANGED <<isCompareMode, top, session>>
          ELSE /\ live' = live
               /\ ExitReturn(i, [hs[i] EXCEPT !.nativeFault = TRUE], FALSE)
  /\ UNCHANGED <<opa, img, env, nativeOnTop, sto, selectedImage, mainWindowState, startup>>

\* await invoke('set_window_position', ..) with the position of the closure's state
ExitSetPos(i) ==
  /\ hs[i].kind = "exit" /\ hs[i].pc = "setPos"
  /\ \E ok \in Outcomes :
       /\ CountFault(ok)
       /\ live' = IF ok THEN [live EXCEPT !.x = hs[i].msnap.x, !.y = hs[i].msnap.y]
                  ELSE live
       /\ ExitReturn(i, [hs[i] EXCEPT !.nativeFault = ~ok], ok)
  /\ UNCHANGED <<opa, img, env, nativeOnTop, sto, selectedImage, mainWindowState, startup>>

(* ------------------- useWindowManager: toggleAlwaysOnTop --------------- *)
\* the click on the always-on-top switch: newValue = !alwaysOnTop, then the await
\* (outside the desktop there is no await: setAlwaysOnTop(newValue))
ToggleAlwaysOnTop ==
  /\ CompareWindowMounted(isCompareMode, selectedImage)
  /\ toggle.pc = "idle"
  /\ IF isTauriEnvironment
     THEN /\ toggle' = [pc |-> "await", newValue |-> ~alwaysOnTop, stale |-> FALSE]
          /\ UNCHANGED alwaysOnTop
     ELSE /\ alwaysOnTop' = ~alwaysOnTop
          /\ UNCHANGED toggle
  /\ last' = Step("toggleCall")
  /\ UNCHANGED <<opa, img, env, win, sto, selectedImage, isCompareMode, mainWindowState, startup,
                 hs, incidents, session>>

\* await invoke('set_always_on_top', {alwaysOnTop: newValue}); setAlwaysOnTop(newValue)
ToggleResolve ==
  /\ toggle.pc = "await"
  /\ \E ok \in Outcomes :
       /\ CountFault(ok)
       /\ nativeOnTop' = IF ok THEN toggle.newValue ELSE nativeOnTop
       /\ alwaysOnTop' = IF ok /\ ~toggle.stale THEN toggle.newValue ELSE alwaysOnTop
  /\ toggle' = NoToggle
  /\ last' = Step("toggleDone")
  /\ UNCHANGED <<opa, img, env, live, sto, selectedImage, isCompareMode, mainWindowState, startup,
                 hs, session>>

(* ------------------------------- restart ------------------------------ *)
\* the application is closed and started again: component state is initial, the
\* store is what reached the file, suspended handlers are gone
Restart ==
  /\ incidents.count < MaxIncidents
  /\ incidents' = [incidents EXCEPT !.count = @ + 1]
  /\ live' = StartGeom
  /\ nativeOnTop' = FALSE
  /\ selectedImage' = NoImage
  /\ isCompareMode' = FALSE
  /\ mainWindowState' = Null
  /\ alwaysOnTop' = FALSE
  /\ toggle' = NoToggle
  /\ mem' = disk
  /\ written' = [k \in StoreKeys |->
                   IF written[k] # Null /\ written[k].complete THEN written[k] ELSE Null]
  /\ startup' = [NoStartup EXCEPT !.afterRestart = TRUE]
  /\ hs' = [i \in Slots |-> NoHandler]
  /\ session' = [NoSession EXCEPT !.keyAtEntry = written'[MAIN_WINDOW_STATE]]
  /\ last' = Step("restart")
  /\ UNCHANGED <<opa, img, isTauriEnvironment, disk>>

(* --------------------- CompareWindow: the opacity ---------------------- *)
Min(a, b) == IF a <= b THEN a ELSE b
Max(a, b) == IF a >= b THEN a ELSE b

ArrowUpOpacity_Unclamped(o) == o + KeyStep

\* case 'ArrowUp': onOpacityChange(Math.min(1, opacity + 0.1))
ArrowUpOpacity(o) == Min(FullOpacity, o + KeyStep)

\* case 'ArrowDown': onOpacityChange(Math.max(0, opacity - 0.1))
ArrowDownOpacity(o) == Max(0, o - KeyStep)

\* the values of <input type="range" min="0" max="1" step="0.05">
SliderValues == {SliderStep * k : k \in 0..(FullOpacity \div SliderStep)}

\* keydown ArrowUp while the CompareWindow is mounted
ArrowUp ==
  /\ CompareWindowMounted(isCompareMode, selectedImage)
  /\ opacity' = ArrowUpOpacity(opacity)
  /\ last' = [op |-> "arrowUp", ok |-> TRUE, h |-> NoHandler, before |-> opacity]
  /\ UNCHANGED <<img, env, win, top, sto, selectedImage, isCompareMode, mainWindowState,
                 startup, hs, incidents, session>>

\* keydown ArrowDown while the CompareWindow is mounted
ArrowDown ==
  /\ CompareWindowMounted(isCompareMode, selectedImage)
  /\ opacity' = ArrowDownOpacity(opacity)
  /\ last' = [op |-> "arrowDown", ok |-> TRUE, h |-> NoHandler, before |-> opacity]
  /\ UNCHANGED <<img, env, win, top, sto, selectedImage, isCompareMode, mainWindowState,
                 startup, hs, incidents, session>>

\* handleOpacityChange: the range input of the control panel is moved to v
HandleOpacityChange(v) ==
  /\ CompareWindowMounted(isCompareMode, selectedImage)
  /\ v # opacity
  /\ opacity' = v
  /\ last' = Step("handleOpacityChange")
  /\ UNCHANGED <<img, env, win, top, sto, selectedImage, isCompareMode, mainWindowState,
                 startup, hs, incidents, session>>

(* ------------------- App: images, recent images, URLs ------------------ *)
\* the mode controller, untouched by the image management
ctl == <<opa, env, win, top, sto, isCompareMode, mainWindowState, startup, hs, session>>

\* the elements of q whose id is in keep, in order
RECURSIVE SelectSeqBy(_, _)
SelectSeqBy(q, keep) ==
  IF q = <<>> THEN <<>>
  ELSE IF Head(q).id \in keep
       THEN <<Head(q)>> \o SelectSeqBy(Tail(q), keep)
       ELSE SelectSeqBy(Tail(q), keep)

Ids(q) == {q[k].id : k \in DOMAIN q}
\* prev.filter(img => img.id !== imageId)
FilterOut(q, imageId) == SelectSeqBy(q, Ids(q) \ {imageId})
\* .slice(0, n)
Slice(q, n) == IF Len(q) <= n THEN q ELSE SubSeq(q, 1, n)

\* the list addToRecentImages(image) makes of prev
AddToRecent(prev, image) == Slice(<<image>> \o FilterOut(prev, image.id), MaxRecent)

\* createImageData: URL.createObjectURL(blob); createdUrlsRef.current.add(url)
NewUrl == objectUrls.made + 1
CreateUrls(n) ==
  /\ objectUrls' = [objectUrls EXCEPT !.made = @ + n]
  /\ createdUrlsRef' = createdUrlsRef \cup ((objectUrls.made + 1)..(objectUrls.made + n))

\* saveRecentImagesToStorage(images): if (isStoringRecentRef.current) return; else the
\* flag is set and storageService.set('pixels_recent_images', ..) is awaited
SaveRecentImagesToStorage(images) ==
  IF isStoringRecentRef
  THEN UNCHANGED <<isStoringRecentRef, pending>>
  ELSE /\ isStoringRecentRef' = TRUE
       /\ pending' = Append(pending, [key |-> "recent", op |-> "set",
                                       value |-> [k \in DOMAIN images |-> images[k].id]])

\* a file is chosen in the dialog or dropped on the window:
\* saveSelectedImage(createImageData(fileName, fileData))
ImportImage(f) ==
  /\ user.imports < MaxImports
  /\ CreateUrls(1)
  /\ selectedImage' = f
  /\ selectedUrl' = NewUrl
  /\ timers' = timers \o <<[fn |-> "add", image |-> ImageData(f, NewUrl)]>>
                      \o (IF isStoringRef THEN <<>>
                          ELSE <<[fn |-> "store", image |-> ImageData(f, NewUrl)]>>)
  /\ isStoringRef' = TRUE
  /\ user' = [user EXCEPT !.imports = @ + 1, !.early = @ \/ loadData # "done"]
  /\ last' = Step("importImage")
  /\ UNCHANGED <<ctl, incidents, recentImages, saveRecentTimeoutRef, isStoringRecentRef,
                 pending, imageStore, loadData>>

\* the remove button of the preview: saveSelectedImage(null)
RemoveSelectedImage ==
  /\ selectedImage # NoImage
  /\ user.removals < MaxRemovals
  /\ selectedImage' = NoImage
  /\ selectedUrl' = NoUrl
  /\ timers' = Append(timers, [fn |-> "remove", image |-> ImageData(NoImage, NoUrl)])
  /\ user' = [user EXCEPT !.removals = @ + 1]
  /\ last' = Step("removeSelectedImage")
  /\ UNCHANGED <<ctl, incidents, recentImages, objectUrls, createdUrlsRef,
                 saveRecentTimeoutRef, isStoringRef, isStoringRecentRef, pending,
                 imageStore, loadData>>

\* setTimeout(() => addToRecentImages(image), 0) runs: the list is updated and the
\* 300 ms timer is armed again with the updated list
AddToRecentImages ==
  /\ timers # <<>> /\ Head(timers).fn = "add"
  /\ timers' = Tail(timers)
  /\ recentImages' = AddToRecent(recentImages, Head(timers).image)
  /\ saveRecentTimeoutRef' = [armed |-> TRUE, images |-> recentImages']
  /\ user' = [user EXCEPT !.lastAdded = Head(timers).image.id]
  /\ last' = Step("addToRecentImages")
  /\ UNCHANGED <<ctl, incidents, selectedImage, selectedUrl, objectUrls, createdUrlsRef,
                 isStoringRef, isStoringRecentRef, pending, imageStore, loadData>>

\* the setTimeout callback of saveSelectedImage(image) runs up to
\* await storageService.set(STORAGE_KEYS.LAST_IMAGE, ..)
StoreLastImage ==
  /\ timers # <<>> /\ Head(timers).fn = "store"
  /\ timers' = Tail(timers)
  /\ pending' = Append(pending, [key |-> "lastImage", op |-> "set",
                                  value |-> Head(timers).image.id])
  /\ last' = Step("storeLastImage")
  /\ UNCHANGED <<ctl, incidents, selectedImage, selectedUrl, recentImages, objectUrls,
                 createdUrlsRef, saveRecentTimeoutRef, isStoringRef, isStoringRecentRef,
                 imageStore, loadData, user>>

\* the setTimeout callback of saveSelectedImage(null) runs up to
\* await storageService.remove(STORAGE_KEYS.LAST_IMAGE)
RemoveLastImage ==
  /\ timers # <<>> /\ Head(timers).fn = "remove"
  /\ timers' = Tail(timers)
  /\ pending' = Append(pending, [key |-> "lastImage", op |-> "remove", value |-> NoImage])
  /\ last' = Step("removeLastImage")
  /\ UNCHANGED <<ctl, incidents, selectedImage, selectedUrl, recentImages, objectUrls,
                 createdUrlsRef, saveRecentTimeoutRef, isStoringRef, isStoringRecentRef,
                 imageStore, loadData, user>>

\* the 300 ms timer runs: saveRecentImagesToStorage(updated)
SaveRecentTimeout ==
  /\ saveRecentTimeoutRef.armed
  /\ saveRecentTimeoutRef' = [saveRecentTimeoutRef EXCEPT !.armed = FALSE]
  /\ SaveRecentImagesToStorage(saveRecentTimeoutRef.images)
  /\ last' = Step("saveRecentTimeout")
  /\ UNCHANGED <<ctl, incidents, selectedImage, selectedUrl, recentImages, objectUrls,
                 createdUrlsRef, timers, isStoringRef, imageStore, loadData, user>>

\* the oldest awaited store call on an image key resolves (store.set / store.delete
\* and store.save together), and the finally block of its caller clears the flag
StoreResolve ==
  /\ pending # <<>>
  /\ pending' = Tail(pending)
  /\ imageStore' = IF Head(pending).key = "recent"
                   THEN [imageStore EXCEPT !.recent = Head(pending).value]
                   ELSE [imageStore EXCEPT !.lastImage = Head(pending).value]
  /\ isStoringRef' = IF Head(pending).key = "lastImage" /\ Head(pending).op = "set"
                     THEN FALSE ELSE isStoringRef
  /\ isStoringRecentRef' = IF Head(pending).key = "recent" THEN FALSE
                           ELSE isStoringRecentRef
  /\ last' = Step("storeResolve")
  /\ UNCHANGED <<ctl, incidents, selectedImage, selectedUrl, recentImages, objectUrls,
                 createdUrlsRef, timers, saveRecentTimeoutRef, loadData, user>>

\* a thumbnail of the recent images is clicked: setSelectedImage(recentImage)
HandleQuickSwitch(k) ==
  /\ k \in DOMAIN recentImages
  /\ recentImages[k].url # selectedUrl
  /\ selectedImage' = recentImages[k].id
  /\ selectedUrl' = recentImages[k].url
  /\ last' = Step("handleQuickSwitch")
  /\ UNCHANGED <<ctl, incidents, recentImages, objectUrls, createdUrlsRef, timers,
                 saveRecentTimeoutRef, isStoringRef, isStoringRecentRef, pending,
                 imageStore, loadData, user>>

\* the delete button of a thumbnail: the entry is filtered out and the list saved
HandleRemoveRecentImage(k) ==
  /\ k \in DOMAIN recentImages
  /\ recentImages' = FilterOut(recentImages, recentImages[k].id)
  /\ SaveRecentImagesToStorage(recentImages')
  /\ user' = IF user.lastAdded = recentImages[k].id
             THEN [user EXCEPT !.lastAdded = NoImage] ELSE user
  /\ last' = Step("handleRemoveRecentImage")
  /\ UNCHANGED <<ctl, incidents, selectedImage, selectedUrl, objectUrls, createdUrlsRef,
                 timers, saveRecentTimeoutRef, isStoringRef, imageStore, loadData>>

\* loadData: await loadLastImage(); a stored image is selected under a new URL
LoadLastImage ==
  /\ loadData = "lastImage"
  /\ loadData' = "recent"
  /\ IF imageStore.lastImage # NoImage
     THEN /\ CreateUrls(1)
          /\ selectedImage' = imageStore.lastImage
          /\ selectedUrl' = NewUrl
     ELSE UNCHANGED <<objectUrls, createdUrlsRef, selectedImage, selectedUrl>>
  /\ last' = Step("loadLastImage")
  /\ UNCHANGED <<ctl, incidents, recentImages, timers, saveRecentTimeoutRef, isStoringRef,
                 isStoringRecentRef, pending, imageStore, user>>

\* loadData: const recent = await loadRecentImagesFromStorage(); setRecentImages(recent):
\* every stored image gets a new URL
LoadRecentImages ==
  /\ loadData = "recent"
  /\ loadData' = "done"
  /\ CreateUrls(Len(imageStore.recent))
  /\ recentImages' = [k \in DOMAIN imageStore.recent |->
                        ImageData(imageStore.recent[k], objectUrls.made + k)]
  /\ last' = Step("loadRecentImages")
  /\ UNCHANGED <<ctl, incidents, selectedImage, selectedUrl, timers, saveRecentTimeoutRef,
                 isStoringRef, isStoringRecentRef, pending, imageStore, user>>

\* the application is closed (the unmount effect runs cleanupUrls) and started again
CloseAndReopen ==
  /\ incidents.count < MaxIncidents
  /\ incidents' = [incidents EXCEPT !.count = @ + 1]
  /\ user' = [imports |-> user.imports, removals |-> user.removals,
               lastAdded |-> NoImage,
               leaked |-> \E u \in 1..objectUrls.made :
                             u \notin objectUrls.revoked \cup createdUrlsRef,
               early |-> FALSE]
  /\ selectedImage' = NoImage
  /\ selectedUrl' = NoUrl
  /\ recentImages' = <<>>
  /\ objectUrls' = NoUrls
  /\ createdUrlsRef' = {}
  /\ timers' = <<>>
  /\ saveRecentTimeoutRef' = NoTimeout
  /\ isStoringRef' = FALSE
  /\ isStoringRecentRef' = FALSE
  /\ pending' = <<>>
  /\ loadData' = "lastImage"
  /\ last' = Step("closeAndReopen")
  /\ UNCHANGED <<ctl, imageStore>>

(* -------------------------------- Next -------------------------------- *)
\* the mode controller and the window-state cache
Next ==
  \/ StartupRead
  \/ StartupDeliver
  \/ \E image \in Images \cup {NoImage} : SaveSelectedImage(image)
  \/ \E g \in UserGeoms : UserMoveWindow(g)
  \/ HandleEnterCompareMode
  \/ \E i \in Slots : EnterGetSize(i)
  \/ \E i \in Slots : EnterGetPos(i)
  \/ \E i \in Slots : EnterStoreSet(i)
  \/ \E i \in Slots : EnterStoreSave(i)
  \/ \E i \in Slots : EnterGetCompare(i)
  \/ \E i \in Slots : EnterSetSize(i)
  \/ \E i \in Slots : EnterSetPos(i)
  \/ HandleExitCompareMode
  \/ \E i \in Slots : ExitGetSize(i)
  \/ \E i \in Slots : ExitGetPos(i)
  \/ \E i \in Slots : ExitStoreSet(i)
  \/ \E i \in Slots : ExitStoreSave(i)
  \/ \E i \in Slots : ExitSetSize(i)
  \/ \E i \in Slots : ExitSetPos(i)
  \/ Restart

Spec == Init /\ [][Next]_vars

\* the same with the always-on-top switch of the CompareWindow
NextOnTop ==
  \/ Next
  \/ ToggleAlwaysOnTop
  \/ ToggleResolve

SpecOnTop == Init /\ [][NextOnTop]_vars

\* the mode controller with the copy of the hook in src/src/hooks/useWindowCache.ts,
\* in the desktop environment: the transitions are the same, the start-up effect is
\* StartupEffect
InitWindowCache == Init /\ isTauriEnvironment

NextWindowCache ==
  \/ StartupEffect
  \/ \E image \in Images \cup {NoImage} : SaveSelectedImage(image)
  \/ \E g \in UserGeoms : UserMoveWindow(g)
  \/ HandleEnterCompareMode
  \/ \E i \in Slots : EnterGetSize(i)
  \/ \E i \in Slots : EnterGetPos(i)
  \/ \E i \in Slots : EnterStoreSet(i)
  \/ \E i \in Slots : EnterStoreSave(i)
  \/ \E i \in Slots : EnterGetCompare(i)
  \/ \E i \in Slots : EnterSetSize(i)
  \/ \E i \in Slots : EnterSetPos(i)
  \/ HandleExitCompareMode
  \/ \E i \in Slots : ExitGetSize(i)
  \/ \E i \in Slots : ExitGetPos(i)
  \/ \E i \in Slots : ExitStoreSet(i)
  \/ \E i \in Slots : ExitStoreSave(i)
  \/ \E i \in Slots : ExitSetSize(i)
  \/ \E i \in Slots : ExitSetPos(i)
  \/ Restart

SpecWindowCache == InitWindowCache /\ [][NextWindowCache]_vars

\* the opacity control of the CompareWindow, with the mode controller outside the
\* desktop (where enterCompareMode and exitCompareMode return at once)
InitOpacity == Init /\ ~isTauriEnvironment

NextOpacity ==
  \/ \E image \in Images \cup {NoImage} : SaveSelectedImage(image)
  \/ HandleEnterCompareMode
  \/ HandleExitCompareMode
  \/ ArrowUp
  \/ ArrowDown
  \/ \E v \in SliderValues : HandleOpacityChange(v)

SpecOpacity == InitOpacity /\ [][NextOpacity]_vars

\* the image management of the App, in the desktop environment and in Normal mode
InitImages == Init /\ isTauriEnvironment

NextImages ==
  \/ \E f \in Files : ImportImage(f)
  \/ RemoveSelectedImage
  \/ AddToRecentImages
  \/ StoreLastImage
  \/ RemoveLastImage
  \/ SaveRecentTimeout
  \/ StoreResolve
  \/ \E k \in 1..MaxRecent : HandleQuickSwitch(k)
  \/ \E k \in 1..MaxRecent : HandleRemoveRecentImage(k)
  \/ LoadLastImage
  \/ LoadRecentImages
  \/ CloseAndReopen

SpecImages == InitImages /\ [][NextImages]_vars

(* ================================ claims =============================== *)

\* C1: with no native-window failure and no other transition in flight, when an
\* exitCompare() completes that follows an enterCompare(), the live window has the
\* size and position it had immediately before that enterCompare() was called.
C1_RoundTripRestoresGeometry ==
  (last.op = "exitDone" /\ last.ok /\ last.h.alone /\ session.clean)
    => live = session.liveBefore


\* C2: when a saveState(mode, G) has completed (store.set and store.save did not
\* reject) and no other write to that mode's key happened since, a loadState(mode)
\* whose read does not reject returns exactly G, also after a restart.
\* loadState(Compare) is the read of enterCompareMode, loadState(Normal) the
\* start-up loadMainWindowState.
C2_Completed(key) == written[key] # Null /\ written[key].complete

C2_SaveLoadRoundTrip ==
  /\ (last.op = "loadCompare" /\ last.ok /\ C2_Completed(COMPARE_WINDOW_STATE))
       => last.h.cached = written[COMPARE_WINDOW_STATE].val
  /\ (last.op = "startupRead" /\ last.ok /\ C2_Completed(MAIN_WINDOW_STATE))
       => startup.value = written[MAIN_WINDOW_STATE].val

\* a start-up load after a restart reads a main window state saved in the run before
C2_Witness ==
  /\ last.op = "startupRead" /\ last.ok /\ startup.afterRestart
  /\ C2_Completed(MAIN_WINDOW_STATE)
  /\ startup.value = written[MAIN_WINDOW_STATE].val

\* C3: in the desktop environment, when an enterCompare() that ran alone and met no
\* rejected call completes and found no cached Compare geometry, the live window is
\* 750 wide with the height and position captured from the Normal window, the
\* captured geometry is the live geometry from before the call and is what
\* main_window_state holds (in the store and in its file), and the mode is Compare.
C3_FirstEnter ==
  (/\ last.op = "enterDone" /\ last.ok /\ isTauriEnvironment
   /\ last.h.alone /\ ~last.h.storeFault /\ last.h.cached = Null)
    => /\ live = WindowState(DefaultCompareWidth, last.h.liveAtCall.height,
                             last.h.liveAtCall.x, last.h.liveAtCall.y)
       /\ StorageGet(mem, MAIN_WINDOW_STATE, FALSE) = last.h.liveAtCall
       /\ StorageGet(disk, MAIN_WINDOW_STATE, FALSE) = last.h.liveAtCall
       /\ isCompareMode

\* the scenario of the specification: (1200,800)@(100,50) becomes (750,800)@(100,50)
C3_Witness ==
  /\ last.op = "enterDone" /\ last.ok /\ isTauriEnvironment
  /\ last.h.alone /\ ~last.h.storeFault /\ last.h.cached = Null
  /\ last.h.liveAtCall = WindowState(1200, 800, 100, 50)
  /\ live = WindowState(750, 800, 100, 50)
  /\ isCompareMode


\* C4: (a) an exitCompare() that ran alone and whose store calls did not reject
\* leaves under compare_window_state, in the store and in its file, the live
\* geometry it queried, which is the live geometry of the moment of exit;
\* (b) an enterCompare() that completes successfully (alone, no rejected store
\* call) after such a save, in the same run or after a restart, leaves the live
\* window with exactly the saved size and position.
C4_ExitSaved(rec) ==
  /\ rec.kind = "exit" /\ rec.pc \in {"storeSave", "setSize", "setPos"}
  /\ rec.alone /\ ~rec.storeFault

C4_CompareGeometryRemembered ==
  /\ (last.op = "exitDone" /\ C4_ExitSaved(last.h))
       => /\ last.h.cur = last.h.liveAtCall
          /\ StorageGet(mem, COMPARE_WINDOW_STATE, FALSE) = last.h.liveAtCall
          /\ StorageGet(disk, COMPARE_WINDOW_STATE, FALSE) = last.h.liveAtCall
  /\ (/\ last.op = "enterDone" /\ last.ok /\ isTauriEnvironment
      /\ last.h.alone /\ ~last.h.storeFault /\ C2_Completed(COMPARE_WINDOW_STATE))
       => live = written[COMPARE_WINDOW_STATE].val

\* after a restart, an enterCompare() gives the window the geometry the user had
\* given it in Compare, (900,700)@(200,100), not the 750-wide default
C4_Witness ==
  /\ last.op = "enterDone" /\ last.ok /\ last.h.alone /\ ~last.h.storeFault
  /\ startup.afterRestart
  /\ C2_Completed(COMPARE_WINDOW_STATE)
  /\ live = UserGeom(2)
  /\ last.h.liveAtCall = UserGeom(1)

\* C5: a step of handleEnterCompareMode taken while no image is selected leaves the
\* mode Normal, starts no enterCompareMode (so no native window call is made) and
\* writes no key of the store.
C5_NoImageNoEffect ==
  [][(HandleEnterCompareMode /\ selectedImage = NoImage)
       => (/\ ~isCompareMode'
           /\ UNCHANGED <<hs, live, nativeOnTop, mem, disk, mainWindowState>>)]_vars

C5_Witness == last.op = "enterNoImage" /\ selectedImage = NoImage /\ ~isCompareMode

\* C6: when a native window call rejects during enterCompare(), enterCompare()
\* returns false and that call does not change isCompareMode; when it ran alone the
\* mode is Normal afterwards.
C6_FailedEnterStaysNormal ==
  [][(last'.op = "enterDone" /\ last'.h.nativeFault)
       => (/\ ~last'.ok
           /\ isCompareMode' = isCompareMode
           /\ last'.h.alone => ~isCompareMode')]_vars

\* set_window_position rejected after set_window_size was applied
C6_Witness ==
  /\ last.op = "enterDone" /\ last.h.nativeFault /\ last.h.pc = "setPos"
  /\ ~last.ok /\ ~isCompareMode

\* C7: when a native window call rejects during exitCompare(), the mode stays Compare.
C7_FailedExitStaysCompare ==
  (last.op = "exitDone" /\ last.h.nativeFault) => isCompareMode

\* C8: after every completed exitCompare() the native always-on-top flag is off.
C8_ExitResetsAlwaysOnTop ==
  last.op = "exitDone" => ~nativeOnTop

\* C9: after a completed transition the live geometry is that of the reported mode:
\* when an enterCompare() that ran alone fails, the live window has the size and
\* position it had before the call.
C9_FailedEnterLeavesGeometry ==
  (last.op = "enterDone" /\ ~last.ok /\ last.h.alone) => live = last.h.liveAtCall

\* C10: whenever no transition is in flight (and no store call has rejected), the
\* geometry stored for the inactive mode is that mode's live geometry at the moment
\* it was last exited, and the key of the active mode has not been written since
\* that mode was entered.
C10_StoreFollowsModes ==
  (isTauriEnvironment /\ Busy = {} /\ ~incidents.storeRejected) =>
     IF isCompareMode
     THEN /\ session.open => StorageGet(mem, MAIN_WINDOW_STATE, FALSE) = session.liveBefore
          /\ written[COMPARE_WINDOW_STATE] = session.keyAtEntry
     ELSE /\ session.exitLive # Null
             => StorageGet(mem, COMPARE_WINDOW_STATE, FALSE) = session.exitLive
          /\ written[MAIN_WINDOW_STATE] = session.keyAtEntry

\* C11: a load of a key that was never written returns null, whether or not the
\* read rejects: no exception leaves the load and no default geometry is made up
\* (the 750-wide default is chosen later, by enterCompareMode).
C11_AbsentLoadsNull ==
  /\ (last.op = "loadCompare" /\ mem[COMPARE_WINDOW_STATE] = Absent)
       => last.h.cached = Null
  /\ (last.op = "startupRead" /\ mem[MAIN_WINDOW_STATE] = Absent)
       => startup.value = Null

\* enterCompareMode reads the absent compare key while the main key is present
C11_Witness ==
  /\ last.op = "loadCompare" /\ last.ok
  /\ mem[COMPARE_WINDOW_STATE] = Absent /\ mem[MAIN_WINDOW_STATE] # Absent
  /\ last.h.cached = Null

\* the geometry an enterCompareMode that found `cached` applies to a window `before`
C12_Target(cached, before) ==
  IF cached # Null THEN cached
  ELSE WindowState(DefaultCompareWidth, before.height, before.x, before.y)

C13_ModesAlternate ==
  /\ Cardinality(Busy) <= 1
  /\ \A i \in Slots :
       /\ hs[i].kind = "enter" => ~isCompareMode
       /\ hs[i].kind = "exit" => isCompareMode

\* the store key a transition saves under
C18_Key(rec) == IF rec.kind = "enter" THEN MAIN_WINDOW_STATE ELSE COMPARE_WINDOW_STATE

\* C18: a transition that runs alone is suspended at a set_window_size or
\* set_window_position call only after it has captured the live geometry of the
\* moment it was called and its save of that geometry has completed (or was
\* rejected by the store); an enterCompareMode has by then loaded the compare
\* geometry that is in the store.
C18_StepsInOrder ==
  \A i \in Slots :
    (hs[i].alone /\ hs[i].pc \in {"setSize", "setPos"})
      => /\ hs[i].cur = hs[i].liveAtCall
         /\ hs[i].storeFault
            \/ /\ written[C18_Key(hs[i])] = [val |-> hs[i].cur, complete |-> TRUE]
               /\ hs[i].kind = "enter"
                    => hs[i].cached = StorageGet(mem, COMPARE_WINDOW_STATE, FALSE)

\* an exitCompareMode about to restore the position: the compare geometry is saved
C18_Witness ==
  \E i \in Slots :
    /\ hs[i].kind = "exit" /\ hs[i].pc = "setPos" /\ hs[i].alone /\ ~hs[i].storeFault
    /\ written[COMPARE_WINDOW_STATE] = [val |-> hs[i].cur, complete |-> TRUE]
    /\ live # hs[i].liveAtCall

\* C19: when enterCompareMode or exitCompareMode is called while another call is
\* suspended, the new call starts at its first step and every suspended call stays
\* where it is: none is rejected, queued or cancelled.
C19_NoReentrancyGuard ==
  [][(Busy # {} /\ last'.op \in {"enterCall", "exitCall"})
       => (/\ \A j \in Busy : hs'[j].kind = hs[j].kind /\ hs'[j].pc = hs[j].pc
           /\ Cardinality(Busy') = Cardinality(Busy) + 1
           /\ \A i \in Busy' \ Busy : hs'[i].pc = "getSize")]_vars

\* two overlapping enterCompareMode calls both ran to the end: the second captured
\* the 750-wide window the first had already set, and returned true
C19_Witness ==
  /\ last.op = "enterDone" /\ last.ok /\ ~last.h.alone /\ Busy = {}
  /\ last.h.cur.width = DefaultCompareWidth
  /\ last.h.liveAtCall.width # DefaultCompareWidth

\* C20: the step in which an enterCompareMode with a rejected native call returns
\* writes nothing to the store; when the rejected call is a set call (and the call
\* ran alone, no store call rejected) the store and its file hold under
\* main_window_state the geometry captured at the start; the steps up to and
\* including a rejected query write no key at all.
C20_NoRollback ==
  [][/\ (last'.op = "enterDone" /\ last'.h.nativeFault)
          => UNCHANGED <<mem, disk, written>>
     /\ (/\ last'.op = "enterDone" /\ last'.h.nativeFault
         /\ last'.h.alone /\ ~last'.h.storeFault
         /\ last'.h.pc \in {"setSize", "setPos"})
          => /\ StorageGet(mem', MAIN_WINDOW_STATE, FALSE) = last'.h.liveAtCall
             /\ StorageGet(disk', MAIN_WINDOW_STATE, FALSE) = last'.h.liveAtCall
     /\ (\/ last'.op \in {"enterCall", "enterGetSize", "enterGetPos"}
         \/ last'.op = "enterDone" /\ last'.h.pc \in {"getSize", "getPos"})
          => UNCHANGED <<mem, disk, written>>]_vars

\* set_window_size rejected in a first enter: the window is untouched, the mode is
\* Normal and main_window_state holds the captured geometry
C20_Witness ==
  /\ last.op = "enterDone" /\ last.h.nativeFault /\ last.h.pc = "setSize"
  /\ last.h.alone /\ ~last.h.storeFault
  /\ StorageGet(disk, MAIN_WINDOW_STATE, FALSE) = last.h.liveAtCall
  /\ ~isCompareMode

\* C17: the opacity is always within [0, 1] (0..100 hundredths); an ArrowUp press
\* yields min(1, opacity + 0.1) and an ArrowDown press max(0, opacity - 0.1) of the
\* opacity before the press.
C17_OpacityInRange ==
  /\ opacity \in 0..FullOpacity
  /\ last.op = "arrowUp"
       => opacity = (IF last.before + KeyStep > FullOpacity THEN FullOpacity
                     ELSE last.before + KeyStep)
  /\ last.op = "arrowDown"
       => opacity = (IF last.before - KeyStep < 0 THEN 0 ELSE last.before - KeyStep)

\* ArrowUp pressed at 95%: the opacity is clamped to 100%
C17_Witness == last.op = "arrowUp" /\ last.before = 95 /\ opacity = FullOpacity

(* ------------------------- C14: recent images ------------------------- *)
\* C14: after any sequence of image selections, removals and quick switches the
\* recent-images list holds at most 10 entries, no two entries with the same id, and
\* the image added most recently by addToRecentImages (and not deleted from the list
\* since) is its first entry.
C14_RecentImagesList ==
  /\ Len(recentImages) <= MaxRecent
  /\ \A j \in DOMAIN recentImages : \A k \in DOMAIN recentImages :
       recentImages[j].id = recentImages[k].id => j = k
  /\ user.lastAdded # NoImage =>
       /\ recentImages # <<>>
       /\ recentImages[1].id = user.lastAdded

(* ---------------------- C15: persisted last image ---------------------- *)
\* no timer callback is waiting, no store call is in flight, start-up has finished
StoreOperationsCompleted == timers = <<>> /\ pending = <<>> /\ loadData = "done"

\* C15: in the desktop environment, once all pending store operations have completed,
\* the persisted last-image reference designates the currently selected image. It is
\* stated for the selections saveSelectedImage makes: the selected image is the one
\* created last, so no quick switch has selected another.
C15_LastImagePersisted ==
  (StoreOperationsCompleted /\ selectedUrl # NoUrl /\ selectedUrl = objectUrls.made)
    => imageStore.lastImage = selectedImage

(* -------------------------- C16: object URLs --------------------------- *)
\* the url belongs to an image that is selected, listed, or about to be listed
InUse(u) ==
  \/ u = selectedUrl
  \/ \E k \in DOMAIN recentImages : recentImages[k].url = u
  \/ \E k \in DOMAIN timers : timers[k].image.url = u
  \/ \E k \in DOMAIN saveRecentTimeoutRef.images : saveRecentTimeoutRef.images[k].url = u

\* C16: every object URL created for an image is released when the image is superseded
\* or removed, and all remaining ones are released on shutdown: every URL created is
\* released or still belongs to an image in use, and no shutdown left one unreleased.
C16_UrlsReleased ==
  /\ \A u \in 1..objectUrls.made : u \in objectUrls.revoked \/ InUse(u)
  /\ ~user.leaked

(* ------------------ C21: the Normal geometry in Compare ---------------- *)
\* C21: in the desktop environment, whenever the mode is Compare the in-memory main
\* window state is non-null, and every exitCompareMode, suspended or just returned,
\* holds a non-null main window state: it never skips the restore.
C21_NormalGeometrySaved ==
  isTauriEnvironment =>
    /\ isCompareMode => mainWindowState # Null
    /\ \A i \in Slots : hs[i].kind = "exit" => hs[i].msnap # Null
    /\ last.op = "exitDone" => last.h.msnap # Null

\* an exitCompareMode has restored the geometry saved by the enterCompareMode before it
C21_Witness ==
  /\ isTauriEnvironment /\ last.op = "exitDone" /\ last.ok /\ last.h.pc = "setPos"
  /\ last.h.msnap = session.liveBefore
  /\ live = last.h.msnap

(* -------------------- C22: the two keys are independent ---------------- *)
\* the geometries the transitions save: those of the user and their 750-wide forms
C22_Geoms ==
  UserGeoms \cup {WindowState(DefaultCompareWidth, g.height, g.x, g.y) : g \in UserGeoms}

\* the other key
C22_Other(key) == IF key = MAIN_WINDOW_STATE THEN COMPARE_WINDOW_STATE
                  ELSE MAIN_WINDOW_STATE

C23_Rank(pc) ==
  CASE pc = "getSize" -> 1
    [] pc = "getPos" -> 2
    [] pc = "storeSet" -> 3
    [] pc = "storeSave" -> 4
    [] pc = "getCompare" -> 5
    [] pc = "setSize" -> 6
    [] pc = "setPos" -> 7
    [] OTHER -> 0

\* C23: no failure is retried. In every step a suspended transition either stays at
\* the call it awaits (and nothing of it changes), or ends, or moves to a call further
\* down its text: no native call and no store operation is issued twice. The step in
\* which a native call rejects ends the transition and changes neither the native
\* window nor the store.
C23_NoRetry ==
  [][/\ \A i \in Slots :
          hs[i].kind # "none" =>
            IF hs'[i].pc = hs[i].pc
            THEN [hs'[i] EXCEPT !.alone = hs[i].alone] = hs[i]
            ELSE \/ hs'[i] = NoHandler
                 \/ /\ hs'[i].kind = hs[i].kind
                    /\ C23_Rank(hs'[i].pc) > C23_Rank(hs[i].pc)
     /\ (last'.op \in {"enterDone", "exitDone"} /\ last'.h.nativeFault)
          => /\ UNCHANGED <<live, nativeOnTop, mem, disk, written>>
             /\ Cardinality(Busy') = Cardinality(Busy) - 1
             /\ \A i \in Busy' : hs'[i] = hs[i]]_vars

\* set_window_size rejected in exitCompareMode: the call returned, the window has the
\* Compare geometry it had and the mode is Normal all the same
C23_Witness ==
  /\ last.op = "exitDone" /\ last.h.nativeFault /\ last.h.pc = "setSize"
  /\ Busy = {} /\ live = last.h.liveAtCall /\ ~isCompareMode

(* ------------------------ C24: the start-up load ----------------------- *)
\* C24: when the start-up effect of the window-cache hook has run to its end, and no
\* transition has run in between, the in-memory main window state equals the
\* main_window_state of the store (null when the key is absent).
C24_StartupLoadsMainState ==
  (/\ last.op \in {"startupDeliver", "startupEffect"}
   /\ Busy = {} /\ session.liveBefore = NoGeom /\ ~incidents.storeRejected)
    => mainWindowState = StorageGet(mem, MAIN_WINDOW_STATE, FALSE)

(* ------------------- C25: start-up load against enter ------------------ *)
\* C25: the main window state an exitCompareMode restores is the geometry captured by
\* the enterCompareMode that opened the compare session (one that ran alone from
\* Normal), whatever the order in which that enterCompareMode and the start-up
\* loadMainWindowState ran.
C25_ExitRestoresLatestCapture ==
  \A i \in Slots :
    (isTauriEnvironment /\ hs[i].kind = "exit" /\ session.open /\ session.clean)
      => hs[i].msnap = session.liveBefore

(* --------------------- C26: exactly one view rendered ------------------ *)
\* C26: in every reachable state isCompareMode implies that an image is selected, so
\* exactly one of the main page and the compare window is rendered. It is stated for
\* the runs without incident: no rejected call, no overlapping transitions, no restart.
C26_OneViewRendered ==
  incidents.count = 0 =>
    /\ isCompareMode => selectedImage # NoImage
    /\ CompareWindowMounted(isCompareMode, selectedImage) # MainPageMounted(isCompareMode)

(* ------------------- C27: the always-on-top switch --------------------- *)
\* C27: in the desktop environment, whenever the compare window is mounted and no
\* toggleAlwaysOnTop is in flight, the always-on-top value the switch shows equals
\* the always-on-top flag of the native window. It is stated for the runs without
\* incident: no rejected call, no overlapping transitions, no restart.
C27_SwitchShowsNativeFlag ==
  (/\ isTauriEnvironment /\ incidents.count = 0
   /\ CompareWindowMounted(isCompareMode, selectedImage) /\ toggle.pc = "idle")
    => alwaysOnTop = nativeOnTop

(* ----------------------- C28: outside the desktop ---------------------- *)
\* C28: outside the desktop environment a call of enterCompareMode returns true and a
\* call of exitCompareMode returns, in the step of the click: no call is ever
\* suspended at a native or store call, the mode becomes Compare on enter and Normal
\* on exit, and no step changes the native window, the store, its file or the
\* in-memory main window state.
C28_BrowserTogglesModeOnly ==
  [][~isTauriEnvironment =>
       /\ hs' = hs /\ Busy = {}
       /\ last'.op # "restart" =>
            UNCHANGED <<live, nativeOnTop, mem, disk, written, mainWindowState>>
       /\ (HandleEnterCompareMode /\ selectedImage # NoImage)
            => last'.op = "enterDone" /\ last'.ok /\ isCompareMode'
       /\ HandleExitCompareMode
            => last'.op = "exitDone" /\ last'.ok /\ ~isCompareMode']_vars

\* in the browser the mode went Normal -> Compare -> Normal and nothing was stored
C28_Witness ==
  /\ ~isTauriEnvironment /\ last.op = "exitDone" /\ ~isCompareMode
  /\ session.liveBefore = StartGeom /\ session.exitLive = StartGeom
  /\ mem = EmptyStore /\ disk = EmptyStore /\ mainWindowState = Null

(* ------------------- C29: persisted recent images ---------------------- *)
\* no timer callback waits, the 300 ms timer is not armed, no store call is in
\* flight, start-up has finished
C29_AllCompleted ==
  /\ timers = <<>> /\ ~saveRecentTimeoutRef.armed /\ pending = <<>>
  /\ ~isStoringRecentRef /\ loadData = "done"

\* C29: once all debounce timers and store writes have completed, the persisted
\* recent-images list holds the ids of the in-memory recent-images list, in the same
\* order. It is stated for the runs in which nothing is imported before the start-up
\* load has finished.
C29_RecentImagesPersisted ==
  (C29_AllCompleted /\ ~user.early)
    => imageStore.recent = [k \in DOMAIN recentImages |-> recentImages[k].id]
====
